---------------------------- MODULE Spec2Model ----------------------------
(***************************************************************************)
(* lumberjill: admission control for log records.                          *)
(*                                                                         *)
(* The module models the filters of lumberjill/filters.py (_TimeWindow,    *)
(* ProcessTimeFilter, FrequencyFilter, LambdaFilter, AndFilter) and the    *)
(* drivers of tests.py that feed them records through a logging handler.   *)
(* Every filter call is one action; timestamps are integers.               *)
(***************************************************************************)
EXTENDS Integers, Sequences, FiniteSets, TLC

VARIABLES
    test,            \* the driver that runs: "free" or the name of a script of tests.py
    i,               \* the script's loop index
    tw,              \* a standalone _TimeWindow object
    lastTime,        \* observer: the timestamp of the previous add (SpecMono)
    admitted,        \* observer: the timestamps add has admitted, in order
    ptf,             \* a ProcessTimeFilter object
    solo,            \* observer: per process id, a standalone _TimeWindow fed that id's records
    passed,          \* observer: per process id, the records the handler has emitted
    ff,              \* a FrequencyFilter object
    now,             \* the UTC clock datetime.utcnow() reads
    tally,           \* observer: per kind of record, the calls and admissions since the
                     \* last call on another date
    seenDate,        \* observer: the date of the previous call (or of construction)
    kwargs,          \* the keyword arguments an AndFilter is constructed from
    af,              \* an AndFilter object
    stubs,           \* the StubFilter objects f1 and f2
    recordsLogged,   \* StubHandler.recordsLogged
    variant,         \* the kind of filter two replays are made through
    runs,            \* per replay: its filter objects, its clock, the decisions made
                     \* and the dates of the calls
    shared,          \* the filter object the threads call
    threads,         \* per thread: where it is in its call, and its local values
    results,         \* observer: what the completed calls of the threads returned
    handler,         \* an EmailHandler object
    mailer,          \* the email client of the handler, and the emails it has taken
    errors,          \* the calls of logging.Handler.handleError
    handled,         \* observer: the formatted messages of the records passed to
                     \* handle, in order
    call             \* observer: the last call made, its argument and its result

twVars == <<tw, lastTime, admitted>>
gateVars == <<ptf, solo, passed>>
freqVars == <<ff, tally, seenDate>>
andVars == <<kwargs, af, stubs>>
replayVars == <<variant, runs>>
raceVars == <<shared, threads, results>>
mailVars == <<handler, mailer, errors, handled>>
restVars == <<replayVars, raceVars, mailVars>>
vars == <<test, i, tw, lastTime, admitted, ptf, solo, passed, ff, now, tally,
          seenDate, kwargs, af, stubs, recordsLogged, variant, runs, shared,
          threads, results, handler, mailer, errors, handled, call>>

(***************************************************************************)
(* Bounds of the model.                                                    *)
(***************************************************************************)
MaxPeriod == 3       \* periods of the free driver: 1..MaxPeriod
MaxLimit == 2        \* limits of the free driver: 1..MaxLimit
MaxTime == 5         \* timestamps of the free driver: 0..MaxTime
MaxMonoTime == 7     \* timestamps of the non-decreasing driver: 0..MaxMonoTime
MaxGateTime == 3     \* record.created of the free driver of the gate: 0..MaxGateTime
MaxFreqCalls == 4    \* calls of the free driver of the sampler
MaxDay == 1          \* the clock stops at the end of day MaxDay
MaxAndCalls == 3     \* calls of the free driver of the composite
MaxRunLen == 4       \* add calls of a sequence run on a new window: 1..MaxRunLen
MaxReplay == 3       \* records of a replay
MaxThreads == 2      \* threads that call one filter: 1..MaxThreads
MaxRaceCalls == 4    \* calls the threads begin
MaxHistory == 2      \* historylen of the email handler: 0..MaxHistory
MaxHandles == 4      \* records passed to the email handler

(***************************************************************************)
(* Constants of tests.py.                                                  *)
(***************************************************************************)
TestPeriod == 10
TestLimit == 2
TestWindowAdds == 20
TestGateRecords == 100
TestFrequency == 10
TestPlainRecords == 5000
TestExceptionRecords == 100
DefaultLineno == 42
WARN == 30
ERROR == 40

NoCall == [op |-> "none"]

\* Python's None
None == "None"

-----------------------------------------------------------------------------
(***************************************************************************)
(* _TimeWindow                                                             *)
(***************************************************************************)

\* _TimeWindow.__init__
TimeWindow(period, limit) ==
    [period |-> period, limit |-> limit, window |-> <<>>]

\* _TimeWindow.add comparing against the newest held timestamp
TimeWindowAdd_Newest(self, time) ==
    IF Len(self.window) < self.limit
    THEN [self |-> [self EXCEPT !.window = Append(@, time)], ret |-> TRUE]
    ELSE IF time - self.window[Len(self.window)] > self.period
         THEN [self |-> [self EXCEPT !.window = Append(Tail(@), time)],
               ret |-> TRUE]
         ELSE [self |-> self, ret |-> FALSE]

\* _TimeWindow.add without the popleft
TimeWindowAdd_NoPop(self, time) ==
    IF Len(self.window) < self.limit
    THEN [self |-> [self EXCEPT !.window = Append(@, time)], ret |-> TRUE]
    ELSE IF time - self.window[1] > self.period
         THEN [self |-> [self EXCEPT !.window = Append(@, time)], ret |-> TRUE]
         ELSE [self |-> self, ret |-> FALSE]

\* _TimeWindow.add with >= in place of >
TimeWindowAdd_GE(self, time) ==
    IF Len(self.window) < self.limit
    THEN [self |-> [self EXCEPT !.window = Append(@, time)], ret |-> TRUE]
    ELSE IF time - self.window[1] >= self.period
         THEN [self |-> [self EXCEPT !.window = Append(Tail(@), time)],
               ret |-> TRUE]
         ELSE [self |-> self, ret |-> FALSE]

\* _TimeWindow.add emptying the window on an eviction
TimeWindowAdd_PopAll(self, time) ==
    IF Len(self.window) < self.limit
    THEN [self |-> [self EXCEPT !.window = Append(@, time)], ret |-> TRUE]
    ELSE IF time - self.window[1] > self.period
         THEN [self |-> [self EXCEPT !.window = <<time>>], ret |-> TRUE]
         ELSE [self |-> self, ret |-> FALSE]

\* _TimeWindow.add evicting the newest timestamp held
TimeWindowAdd_PopNewest(self, time) ==
    IF Len(self.window) < self.limit
    THEN [self |-> [self EXCEPT !.window = Append(@, time)], ret |-> TRUE]
    ELSE IF time - self.window[1] > self.period
         THEN [self |-> [self EXCEPT !.window =
                            Append(SubSeq(@, 1, Len(@) - 1), time)],
               ret |-> TRUE]
         ELSE [self |-> self, ret |-> FALSE]

\* _TimeWindow.add: the object after the call and the value returned
TimeWindowAdd(self, time) ==
    IF Len(self.window) < self.limit
    THEN [self |-> [self EXCEPT !.window = Append(@, time)], ret |-> TRUE]
    ELSE IF time - self.window[1] > self.period
         THEN [self |-> [self EXCEPT !.window = Append(Tail(@), time)],
               ret |-> TRUE]
         ELSE [self |-> self, ret |-> FALSE]

-----------------------------------------------------------------------------
(***************************************************************************)
(* Log records and the handler of tests.py                                 *)
(***************************************************************************)

\* logging.getLevelName for the levels the drivers use
GetLevelName(levelno) ==
    CASE levelno = WARN -> "WARNING"
      [] levelno = ERROR -> "ERROR"
      [] OTHER -> "Level " \o ToString(levelno)

\* StubRecord.__init__; exc_info is <<>> or <<the exception type>>
StubRecord(exc_info, lineno, created, pathname, process, levelno) ==
    [exc_info |-> exc_info, lineno |-> lineno, created |-> created,
     pathname |-> pathname, process |-> process, levelno |-> levelno,
     levelname |-> GetLevelName(levelno)]

\* StubHandler.handle: emit counts the records its filter admits
HandlerEmits(ret) ==
    recordsLogged' = IF ret THEN recordsLogged + 1 ELSE recordsLogged

-----------------------------------------------------------------------------
(***************************************************************************)
(* ProcessTimeFilter                                                       *)
(***************************************************************************)

\* the process ids of the drivers: str(t % 2)
Pids == {ToString(0), ToString(1)}

\* period and limit of the gates of the free driver
GateParams == {<<1, 1>>, <<2, 2>>, <<1, 2>>}

\* ProcessTimeFilter.__init__
ProcessTimeFilter(period, limit) ==
    [period |-> period, limit |-> limit, processes |-> <<>>]

\* ProcessTimeFilter.filter with one window shared by all process ids
ProcessTimeFilterFilter_Shared(self, record) ==
    LET key == ToString(0)
        procs == IF key \notin DOMAIN self.processes
                 THEN self.processes @@
                      (key :> TimeWindow(self.period, self.limit))
                 ELSE self.processes
        r == TimeWindowAdd(procs[key], record.created)
    IN  [self |-> [self EXCEPT !.processes = [procs EXCEPT ![key] = r.self]],
         ret |-> r.ret]

\* ProcessTimeFilter.filter constructing a window on every call
ProcessTimeFilterFilter_Fresh(self, record) ==
    LET procs == (record.process :> TimeWindow(self.period, self.limit))
                 @@ self.processes
        r == TimeWindowAdd(procs[record.process], record.created)
    IN  [self |-> [self EXCEPT
                      !.processes = [procs EXCEPT ![record.process] = r.self]],
         ret |-> r.ret]

\* ProcessTimeFilter.filter: the object after the call and the value returned
ProcessTimeFilterFilter(self, record) ==
    LET procs == IF record.process \notin DOMAIN self.processes
                 THEN self.processes @@
                      (record.process :> TimeWindow(self.period, self.limit))
                 ELSE self.processes
        r == TimeWindowAdd(procs[record.process], record.created)
    IN  [self |-> [self EXCEPT
                      !.processes = [procs EXCEPT ![record.process] = r.self]],
         ret |-> r.ret]

-----------------------------------------------------------------------------
(***************************************************************************)
(* FrequencyFilter                                                         *)
(***************************************************************************)

\* the base class of an exception class (Python 2 built-ins)
Base(cls) ==
    CASE cls = "ZeroDivisionError" -> "ArithmeticError"
      [] cls = "ArithmeticError" -> "StandardError"
      [] cls = "KeyError" -> "LookupError"
      [] cls = "LookupError" -> "StandardError"
      [] cls = "StandardError" -> "Exception"
      [] cls = "Exception" -> "BaseException"
      [] OTHER -> "object"

RECURSIVE issubclass(_, _)
\* issubclass(exc_type, cls)
issubclass(exc_type, cls) ==
    IF exc_type = cls THEN TRUE
    ELSE IF exc_type = "object" THEN FALSE
    ELSE issubclass(Base(exc_type), cls)

\* hashlib.md5(s).hexdigest(): a digest that tells any two strings apart
Md5(s) == "md5(" \o s \o ")"

\* the value of counter[key]; a Counter reads 0 for a key it does not hold
CounterGet(counter, key) ==
    IF key \in DOMAIN counter THEN counter[key] ELSE 0

\* FrequencyFilter._get_date_key keeping the half of the day with the date
GetDateKey_HalfDay(clock) ==
    2 * clock.date + (IF clock.half = "pm" THEN 1 ELSE 0)

\* FrequencyFilter._get_date_key: utcnow().strftime("%Y-%m-%d") keeps the
\* date of the clock and drops the time of day
GetDateKey(clock) == clock.date

\* FrequencyFilter.__init__
FrequencyFilter(exception_types, exception_frequency, clock) ==
    [counter |-> <<>>, last_cleared_date |-> GetDateKey(clock),
     exception_types |-> exception_types,
     exception_frequency |-> exception_frequency]

\* FrequencyFilter._get_exception_match returning the last configured type
\* the record's exception type is a subclass of
GetExceptionMatch_Last(self, record) ==
    IF record.exc_info # <<>>
    THEN LET exc_type == record.exc_info[1]
             hits == {k \in DOMAIN self.exception_types :
                         issubclass(exc_type, self.exception_types[k])}
         IN  IF hits = {} THEN None
             ELSE self.exception_types[CHOOSE k \in hits :
                                          \A j \in hits : k >= j]
    ELSE None

\* FrequencyFilter._get_exception_match: the first configured type the
\* record's exception type is a subclass of, or None
GetExceptionMatch(self, record) ==
    IF record.exc_info # <<>>
    THEN LET exc_type == record.exc_info[1]
             hits == {k \in DOMAIN self.exception_types :
                         issubclass(exc_type, self.exception_types[k])}
         IN  IF hits = {} THEN None
             ELSE self.exception_types[CHOOSE k \in hits :
                                          \A j \in hits : k <= j]
    ELSE None

\* FrequencyFilter._get_key with the key of plain records for all records
GetKey_Default(record, cls) ==
    Md5(record.levelname \o "." \o record.pathname \o "."
           \o ToString(record.lineno))

\* FrequencyFilter._get_key without the line number in the key of an
\* exception type
GetKey_NoLine(record, cls) ==
    IF cls # None
    THEN cls \o "." \o Md5(record.pathname)
    ELSE Md5(record.levelname \o "." \o record.pathname \o "."
                \o ToString(record.lineno))

\* FrequencyFilter._get_key
GetKey(record, cls) ==
    IF cls # None
    THEN cls \o "." \o Md5(record.pathname \o "." \o ToString(record.lineno))
    ELSE Md5(record.levelname \o "." \o record.pathname \o "."
                \o ToString(record.lineno))

\* FrequencyFilter._should_log admitting the 1000th record only
ShouldLog_Thousandth(self, count, cls) ==
    IF cls # None
    THEN count % self.exception_frequency = 0
    ELSE count = 1 \/ count = 10 \/ count = 100 \/ count = 1000

\* FrequencyFilter._should_log
ShouldLog(self, count, cls) ==
    IF cls # None
    THEN count % self.exception_frequency = 0
    ELSE count = 1 \/ count = 10 \/ count = 100 \/ (count % 1000) = 0

\* FrequencyFilter._should_clear
ShouldClear(self, clock) == GetDateKey(clock) # self.last_cleared_date

\* FrequencyFilter._clear that keeps the counter
Clear_KeepCounter(self, clock) ==
    [self EXCEPT !.last_cleared_date = GetDateKey(clock)]

\* FrequencyFilter._clear
Clear(self, clock) ==
    [self EXCEPT !.counter = <<>>, !.last_cleared_date = GetDateKey(clock)]

\* FrequencyFilter.filter attaching the count read before the increment
FrequencyFilterFilter_CountBefore(self, record, clock) ==
    LET cleared == IF ShouldClear(self, clock) THEN Clear(self, clock)
                   ELSE self
        cls == GetExceptionMatch(cleared, record)
        key == GetKey(record, cls)
        count == CounterGet(cleared.counter, key) + 1
    IN  [self |-> [cleared EXCEPT !.counter = (key :> count) @@ @],
         record |-> [key |-> key, count |-> count - 1] @@ record,
         ret |-> ShouldLog(cleared, count, cls),
         cls |-> cls]

\* FrequencyFilter.filter: the object and the record after the call, the
\* value returned and the exception type matched
FrequencyFilterFilter(self, record, clock) ==
    LET cleared == IF ShouldClear(self, clock) THEN Clear(self, clock)
                   ELSE self
        cls == GetExceptionMatch(cleared, record)
        key == GetKey(record, cls)
        count == CounterGet(cleared.counter, key) + 1
    IN  [self |-> [cleared EXCEPT !.counter = (key :> count) @@ @],
         record |-> [key |-> key, count |-> count] @@ record,
         ret |-> ShouldLog(cleared, count, cls),
         cls |-> cls]

-----------------------------------------------------------------------------
(***************************************************************************)
(* LambdaFilter, StubFilter and AndFilter                                  *)
(***************************************************************************)

\* keyword names, as the sequences of their character codes
NameA == <<97>>         \* "a"
NameB == <<98>>         \* "b"
NameAB == <<97, 98>>    \* "ab"
NameZ == <<90>>         \* "Z"

RECURSIVE StrLess(_, _)
\* x < y on Python 2 strings
StrLess(x, y) ==
    IF y = <<>> THEN FALSE
    ELSE IF x = <<>> THEN TRUE
    ELSE IF Head(x) # Head(y) THEN Head(x) < Head(y)
    ELSE StrLess(Tail(x), Tail(y))

RECURSIVE ListSort(_)
\* keys.sort(): the keys in ascending order
ListSort(keys) ==
    IF keys = <<>> THEN <<>>
    ELSE LET rest == ListSort(Tail(keys))
             below == {k \in DOMAIN rest : StrLess(rest[k], Head(keys))}
         IN  SubSeq(rest, 1, Cardinality(below)) \o <<Head(keys)>>
                \o SubSeq(rest, Cardinality(below) + 1, Len(rest))

\* AndFilter.__init__ keeping the order of kwargs.keys()
AndFilter_Unsorted(kw) ==
    [filters |-> [k \in DOMAIN kw.keys |-> kw.map[kw.keys[k]]]]

\* AndFilter.__init__: kw.keys is kwargs.keys(), kw.map is kwargs
AndFilter(kw) ==
    LET keys == ListSort(kw.keys)
    IN  [filters |-> [k \in DOMAIN keys |-> kw.map[keys[k]]]]

\* StubFilter.__init__
StubFilter(on) == [on |-> on, hit |-> 0]

\* StubFilter.filter
StubFilterFilter(self, record) ==
    [self |-> [self EXCEPT !.hit = @ + 1], ret |-> self.on]

\* LambdaFilter.filter with f = lambda r: r.levelno >= logging.ERROR
LambdaFilterFilter(record) == record.levelno >= ERROR

\* f.filter(record) for a child f of the composite; w holds the objects the
\* children are and the record
ChildFilter(f, w, clock) ==
    CASE f \in DOMAIN w.stubs ->
            LET r == StubFilterFilter(w.stubs[f], w.record)
            IN  [w |-> [w EXCEPT !.stubs[f] = r.self], ret |-> r.ret]
      [] f = "ff" ->
            LET r == FrequencyFilterFilter(w.ff, w.record, clock)
            IN  [w |-> [w EXCEPT !.ff = r.self, !.record = r.record],
                 ret |-> r.ret]
      [] f = "ptf" ->
            LET r == ProcessTimeFilterFilter(w.ptf, w.record)
            IN  [w |-> [w EXCEPT !.ptf = r.self], ret |-> r.ret]
      [] f = "lambda" ->
            [w |-> w, ret |-> LambdaFilterFilter(w.record)]

RECURSIVE AndLoop_Any(_, _, _, _, _)
\* the loop of AndFilter.filter without the early return: true if any child
\* returns true
AndLoop_Any(self, k, w, clock, invoked) ==
    IF k > Len(self.filters)
    THEN [w |-> w, invoked |-> invoked,
          ret |-> \E j \in DOMAIN invoked : invoked[j].ret]
    ELSE LET r == ChildFilter(self.filters[k], w, clock)
         IN  AndLoop_Any(self, k + 1, r.w, clock,
                         Append(invoked, [f |-> self.filters[k],
                                          ret |-> r.ret]))

RECURSIVE AndLoop_NoBreak(_, _, _, _, _)
\* the loop of AndFilter.filter calling every child before it returns
AndLoop_NoBreak(self, k, w, clock, invoked) ==
    IF k > Len(self.filters)
    THEN [w |-> w, invoked |-> invoked,
          ret |-> \A j \in DOMAIN invoked : invoked[j].ret]
    ELSE LET r == ChildFilter(self.filters[k], w, clock)
         IN  AndLoop_NoBreak(self, k + 1, r.w, clock,
                             Append(invoked, [f |-> self.filters[k],
                                              ret |-> r.ret]))

RECURSIVE AndLoop(_, _, _, _, _)
\* the loop of AndFilter.filter from the k-th child on; invoked lists the
\* children called so far and what they returned
AndLoop(self, k, w, clock, invoked) ==
    IF k > Len(self.filters)
    THEN [w |-> w, ret |-> TRUE, invoked |-> invoked]
    ELSE LET r == ChildFilter(self.filters[k], w, clock)
             called == Append(invoked, [f |-> self.filters[k],
                                        ret |-> r.ret])
         IN  IF ~r.ret
             THEN [w |-> r.w, ret |-> FALSE, invoked |-> called]
             ELSE AndLoop(self, k + 1, r.w, clock, called)

\* AndFilter.filter
AndFilterFilter(self, w, clock) == AndLoop(self, 1, w, clock, <<>>)

-----------------------------------------------------------------------------
(***************************************************************************)
(* EmailHandler and the email clients                                      *)
(***************************************************************************)

RECURSIVE Join(_, _)
\* sep.join(lines)
Join(sep, lines) ==
    IF lines = <<>> THEN ""
    ELSE IF Len(lines) = 1 THEN lines[1]
    ELSE lines[1] \o sep \o Join(sep, Tail(lines))

\* collections.deque(maxlen=maxlen).append(x): a full deque drops its first
\* item, a deque of maxlen 0 stays empty
DequeAppend(deque, maxlen, x) ==
    IF maxlen = 0 THEN <<>>
    ELSE IF Len(deque) >= maxlen THEN Append(Tail(deque), x)
    ELSE Append(deque, x)

\* EmailHandler.__init__
EmailHandler(fromaddr, toaddrs, historylen) ==
    [fromaddr |-> fromaddr, toaddrs |-> Join("; ", toaddrs),
     history |-> <<>>, maxlen |-> historylen]

\* a LogRecord: the fields of StubRecord and those the handler reads
LogRecord(msg, exc_info, lineno, created) ==
    [msg |-> msg, name |-> "root", module |-> "tests",
     processName |-> "MainProcess"]
    @@ StubRecord(exc_info, lineno, created, "/", ToString(1), WARN)

\* logging.Handler.format with the default formatter: the message, and the
\* traceback of the exception if the record has one
Format(record) ==
    IF record.exc_info = <<>> THEN record.msg
    ELSE record.msg \o "\nTraceback: " \o record.exc_info[1]

\* EmailHandler._get_datestamp
GetDatestamp(record, datefmt) ==
    datefmt \o "@" \o ToString(record.created)

\* EmailHandler._createsubject
CreateSubject(self, record) ==
    "(Seen "
    \o (IF "count" \in DOMAIN record THEN ToString(record.count) ELSE "?")
    \o " times) " \o record.msg \o " - [" \o record.levelname \o "] - "
    \o GetDatestamp(record, "%Y-%m-%d %H:%M:%S")

\* the lines of EmailHandler._createbody before the history
BodyHead(record) ==
    <<"hostname: host", "fqdn: host.example.com",
      GetDatestamp(record, "%A, %B %d, %Y at %H:%M:%S"),
      "Record level: " \o record.levelname,
      "Record name: " \o record.name,
      "Record path: " \o record.pathname,
      "module: " \o record.module,
      "Process name and pid: " \o record.processName \o " ["
          \o record.process \o "]">>

\* EmailHandler._createbody
CreateBody(self, record) ==
    Join("\n", BodyHead(record) \o <<"">> \o self.history \o <<"">>
                   \o <<Format(record)>>)

\* mailer.send(email): "sent" if the client returns, or the exception it
\* raises. notify is the NOTIFY_EMAIL switch, fails says that the transport
\* raises. MandrillEmail reads mime_email.from_name, which emit never sets
Send(client, email, notify, fails) ==
    CASE client.class = "StubEmailer" -> "sent"
      [] client.class = "SendGridEmail" ->
            IF notify /\ fails THEN "SendGridClientError" ELSE "sent"
      [] client.class = "MandrillEmail" -> "AttributeError"

\* EmailHandler.emit without the try statement
Emit_NoTry(self, record, client, notify, fails) ==
    LET email == [body |-> CreateBody(self, record),
                  Subject |-> CreateSubject(self, record),
                  From |-> self.fromaddr, To |-> self.toaddrs]
        sent == Send(client, email, notify, fails)
    IN  [email |-> email, sent |-> sent, handleError |-> FALSE,
         raises |-> IF sent = "sent" THEN None ELSE sent]

\* EmailHandler.emit: the email, what send did, whether handleError was
\* called, and the exception that leaves emit (None: emit returns)
Emit(self, record, client, notify, fails) ==
    LET email == [body |-> CreateBody(self, record),
                  Subject |-> CreateSubject(self, record),
                  From |-> self.fromaddr, To |-> self.toaddrs]
        sent == Send(client, email, notify, fails)
    IN  [email |-> email, sent |-> sent, handleError |-> sent # "sent",
         raises |-> None]

\* EmailHandler.handle appending the message before the record is handled
EmailHandle_AppendFirst(self, record, rv, client, notify, fails) ==
    LET msg == Format(record)
        first == [self EXCEPT !.history = DequeAppend(@, self.maxlen, msg)]
        e == IF rv THEN Emit(first, record, client, notify, fails)
             ELSE [raises |-> None]
    IN  [self |-> first, msg |-> msg, rv |-> rv, emit |-> e,
         raises |-> e.raises]

\* EmailHandler.handle: format, then logging.Handler.handle (emit if the
\* filters returned rv true), then the message joins the history unless an
\* exception left emit
EmailHandle(self, record, rv, client, notify, fails) ==
    LET msg == Format(record)
        e == IF rv THEN Emit(self, record, client, notify, fails)
             ELSE [raises |-> None]
    IN  [self |-> IF e.raises = None
                  THEN [self EXCEPT
                           !.history = DequeAppend(@, self.maxlen, msg)]
                  ELSE self,
         msg |-> msg, rv |-> rv, emit |-> e, raises |-> e.raises]

-----------------------------------------------------------------------------
(***************************************************************************)
(* Initial states of the objects                                            *)
(***************************************************************************)

\* a gate and the observers of its process ids
GateStarts(period, limit) ==
    /\ ptf = ProcessTimeFilter(period, limit)
    /\ solo = [p \in Pids |-> TimeWindow(period, limit)]
    /\ passed = [p \in Pids |-> 0]

GateIdle == GateStarts(1, 1)

Midnight == [date |-> 0, half |-> "am"]

\* a sampler constructed at midnight of day 0, and its observers
FreqStarts(exception_types, exception_frequency) ==
    /\ now = Midnight
    /\ ff = FrequencyFilter(exception_types, exception_frequency, now)
    /\ tally = <<>>
    /\ seenDate = GetDateKey(now)

FreqIdle == FreqStarts(<<>>, 1)

\* the orders kwargs.keys() may list the keys of a dict in
KeyOrders(map) ==
    {keys \in [1..Cardinality(DOMAIN map) -> DOMAIN map] :
        \A j, k \in DOMAIN keys : j # k => keys[j] # keys[k]}

\* a composite constructed from the keyword arguments map, and two stubs
AndStarts(map, on1, on2) ==
    /\ kwargs \in {[keys |-> keys, map |-> map] : keys \in KeyOrders(map)}
    /\ af = AndFilter(kwargs)
    /\ stubs = [f1 |-> StubFilter(on1), f2 |-> StubFilter(on2)]

AndIdle == AndStarts(<<>>, TRUE, TRUE)

TwIdle ==
    /\ tw = TimeWindow(1, 1)
    /\ lastTime = 0
    /\ admitted = <<>>

\* the objects a replay constructs when its clock reads clock
FreshObjects(clock) ==
    [stubs |-> [f1 |-> StubFilter(TRUE), f2 |-> StubFilter(TRUE)],
     ff |-> FrequencyFilter(<<"ZeroDivisionError">>, 2, clock),
     ptf |-> ProcessTimeFilter(1, 1)]

\* a replay that starts when its clock reads clock
ReplayStarts(clock) ==
    [objs |-> FreshObjects(clock), now |-> clock, decisions |-> <<>>,
     dates |-> <<>>]

ReplayIdle ==
    /\ variant = "none"
    /\ runs = [r \in 1..2 |-> ReplayStarts(Midnight)]

\* the threads, none of them in a call
Threads == 1..MaxThreads

Idle == [pc |-> "idle"]

RaceStarts(object) ==
    /\ shared = object
    /\ threads = [t \in Threads |-> Idle]
    /\ results = <<>>

RaceIdle == RaceStarts(None)

\* an email handler with its client, and the observers
MailStarts(client, historylen) ==
    /\ handler = EmailHandler("from@example.com",
                              <<"a@example.com", "b@example.com">>,
                              historylen)
    /\ mailer = [class |-> client, taken |-> 0]
    /\ errors = 0
    /\ handled = <<>>

MailIdle == MailStarts("StubEmailer", 0)

RestIdle == ReplayIdle /\ RaceIdle /\ MailIdle

-----------------------------------------------------------------------------
(***************************************************************************)
(* Actions: one call of a filter, through the handler where tests.py has   *)
(* one                                                                     *)
(***************************************************************************)

\* one tw.add(time) on the standalone window; the observer also records
\* whether every timestamp given so far was at least the one before it
TwAdd(time) ==
    LET r == TimeWindowAdd(tw, time)
    IN  /\ tw' = r.self
        /\ admitted' = IF r.ret THEN Append(admitted, time) ELSE admitted
        /\ call' = [op |-> "add", time |-> time, ret |-> r.ret,
                     held |-> Len(tw.window),
                     inOrder |-> \/ call = NoCall
                                 \/ call.inOrder /\ call.time <= time]

\* the free driver: any timestamp, in any order
TwFreeAdd ==
    /\ test = "free"
    /\ \E time \in 0..MaxTime : TwAdd(time)
    /\ UNCHANGED <<test, restVars, i, lastTime, gateVars, freqVars, now,
                 andVars, recordsLogged>>

\* test_time_window: tw.add(0), tw.add(1), ..., tw.add(19)
TwTestAdd ==
    /\ test = "time_window"
    /\ i < TestWindowAdds
    /\ TwAdd(i)
    /\ i' = i + 1
    /\ UNCHANGED <<test, restVars, lastTime, gateVars, freqVars, now,
                 andVars, recordsLogged>>

\* the non-decreasing driver: every timestamp is at least the previous one
TwMonoAdd ==
    /\ test = "mono"
    /\ \E time \in lastTime..MaxMonoTime :
          /\ TwAdd(time)
          /\ lastTime' = time
    /\ UNCHANGED <<test, restVars, i, gateVars, freqVars, now,
                 andVars, recordsLogged>>

\* handler.handle(record) with the gate as the handler's filter
GateHandle(record) ==
    LET r == ProcessTimeFilterFilter(ptf, record)
        s == TimeWindowAdd(solo[record.process], record.created)
    IN  /\ ptf' = r.self
        /\ HandlerEmits(r.ret)
        /\ solo' = [solo EXCEPT ![record.process] = s.self]
        /\ passed' = IF r.ret
                     THEN [passed EXCEPT ![record.process] = @ + 1]
                     ELSE passed
        /\ call' = [op |-> "filter", record |-> record, ret |-> r.ret,
                    solo |-> s.ret]

\* the free driver: records of any process id, timestamps in any order
GateFreeHandle ==
    /\ test = "free"
    /\ \E process \in Pids, created \in 0..MaxGateTime :
          GateHandle(StubRecord(<<>>, DefaultLineno, created, "/", process,
                                WARN))
    /\ UNCHANGED <<test, restVars, i, twVars, freqVars, now, andVars>>

\* test_process_time_filter: StubRecord(created=t/2, process=str(t%2))
GateTestHandle ==
    /\ test = "process_time_filter"
    /\ i < TestGateRecords
    /\ GateHandle(StubRecord(<<>>, DefaultLineno, i \div 2, "/",
                             ToString(i % 2), WARN))
    /\ i' = i + 1
    /\ UNCHANGED <<test, restVars, twVars, freqVars, now, andVars>>

\* the kind of a record: the exception type matched with the source place,
\* or the level with the source place
Bucket(record, cls) ==
    IF cls # None
    THEN <<cls, "", record.pathname, record.lineno>>
    ELSE <<None, record.levelname, record.pathname, record.lineno>>

NoTally == [fed |-> 0, admits |-> 0]

\* the observer's entry for a kind of record
TallyGet(b) == IF b \in DOMAIN tally THEN tally[b] ELSE NoTally

\* ff.filter(record), observed
FreqFilter(record) ==
    LET r == FrequencyFilterFilter(ff, record, now)
        rolled == GetDateKey(now) # seenDate
        fresh == IF rolled THEN <<>> ELSE tally
        b == Bucket(record, r.cls)
        old == IF b \in DOMAIN fresh THEN fresh[b] ELSE NoTally
    IN  /\ ff' = r.self
        /\ tally' = (b :> [fed |-> old.fed + 1,
                           admits |-> old.admits + IF r.ret THEN 1 ELSE 0])
                    @@ fresh
        /\ seenDate' = GetDateKey(now)
        /\ call' = [op |-> "freq", record |-> r.record, ret |-> r.ret,
                    cls |-> r.cls, rolled |-> rolled, bucket |-> b,
                    before |-> CounterGet(ff.counter, r.record.key)]

\* handler.handle(record) with the sampler as the handler's filter
FreqHandle(record) ==
    /\ FreqFilter(record)
    /\ HandlerEmits(FrequencyFilterFilter(ff, record, now).ret)

\* the records of the free driver of the sampler
FreqRecords ==
    {StubRecord(exc_info, lineno, 1, "/", ToString(1), WARN) :
        exc_info \in {<<>>, <<"KeyError">>, <<"ZeroDivisionError">>,
                      <<"ArithmeticError">>},
        lineno \in {DefaultLineno, DefaultLineno + 1}}
    \cup
    {StubRecord(exc_info, DefaultLineno, 1, "/", ToString(1), ERROR) :
        exc_info \in {<<>>, <<"ZeroDivisionError">>}}

\* the free driver: any record, a bounded number of calls
FreqFreeHandle ==
    /\ test = "free"
    /\ i < MaxFreqCalls
    /\ \E record \in FreqRecords : FreqHandle(record)
    /\ i' = i + 1
    /\ UNCHANGED <<test, restVars, twVars, gateVars, now, andVars>>

\* the record of the first loop of test_frequency_filter: StubRecord()
PlainRecord == StubRecord(<<>>, DefaultLineno, 1, "/", ToString(1), WARN)

\* test_frequency_filter, first loop: a stream of records alike passed to
\* the sampler until it has counted 5000 of them; the admissions the test
\* reads off its handler are those the observer tallies
FreqPlainFilter ==
    /\ test = "frequency_filter"
    /\ CounterGet(ff.counter, GetKey(PlainRecord, None)) < TestPlainRecords
    /\ FreqFilter(PlainRecord)
    /\ UNCHANGED <<test, restVars, i, twVars, gateVars, now, andVars, recordsLogged>>

\* test_frequency_filter, second loop:
\* StubRecord(created=t/2, lineno=str(t%2), exc_info=(type(err), err, None))
FreqExceptionHandle ==
    /\ test = "exception_records"
    /\ i < TestExceptionRecords
    /\ FreqHandle(StubRecord(<<"ZeroDivisionError">>, i % 2, i \div 2, "/",
                             ToString(1), WARN))
    /\ i' = i + 1
    /\ UNCHANGED <<test, restVars, twVars, gateVars, now, andVars>>

\* the clock advances by half a day
ClockTick ==
    /\ now.half = "am" \/ now.date < MaxDay
    /\ now' = IF now.half = "am" THEN [now EXCEPT !.half = "pm"]
              ELSE [date |-> now.date + 1, half |-> "am"]
    /\ UNCHANGED <<test, restVars, i, twVars, gateVars, freqVars, andVars,
                   recordsLogged, call>>

\* handler.handle(record) with the composite as the handler's filter
AndHandle(record) ==
    LET r == AndFilterFilter(af, [stubs |-> stubs, ff |-> ff, ptf |-> ptf,
                                  record |-> record], now)
    IN  /\ stubs' = r.w.stubs
        /\ ff' = r.w.ff
        /\ ptf' = r.w.ptf
        /\ HandlerEmits(r.ret)
        /\ call' = [op |-> "and", input |-> record, record |-> r.w.record,
                    ret |-> r.ret, invoked |-> r.invoked,
                    seq |-> IF call.op = "and" THEN call.seq + 1 ELSE 1]

\* the records of the free driver of the composite
AndRecords ==
    {StubRecord(<<>>, DefaultLineno, 1, "/", ToString(1), WARN),
     StubRecord(<<"ZeroDivisionError">>, DefaultLineno, 2, "/", ToString(1),
                ERROR)}

\* the free driver: any record, a bounded number of calls
AndFreeHandle ==
    /\ test = "free"
    /\ i < MaxAndCalls
    /\ \E record \in AndRecords : AndHandle(record)
    /\ i' = i + 1
    /\ UNCHANGED <<test, restVars, twVars, solo, passed, tally, seenDate, now, kwargs,
                   af>>

\* the free driver switches a stub: f.on = on
AndFreeSetOn ==
    /\ test = "free"
    /\ \E f \in DOMAIN stubs, on \in BOOLEAN :
          stubs' = [stubs EXCEPT ![f].on = on]
    /\ UNCHANGED <<test, restVars, i, twVars, gateVars, freqVars, now, kwargs, af,
                   recordsLogged, call>>

\* test_and_filter: the handler.handle(StubRecord()) of steps 0, 2 and 5
AndTestHandle ==
    /\ test = "and_filter"
    /\ i \in {0, 2, 5}
    /\ AndHandle(StubRecord(<<>>, DefaultLineno, 1, "/", ToString(1), WARN))
    /\ i' = i + 1
    /\ UNCHANGED <<test, restVars, twVars, solo, passed, tally, seenDate, now, kwargs,
                   af>>

\* test_and_filter: f1.on = False (step 1), f1.on = True (step 3) and
\* f2.on = True (step 4)
AndTestSetOn ==
    /\ test = "and_filter"
    /\ i \in {1, 3, 4}
    /\ stubs' = CASE i = 1 -> [stubs EXCEPT !.f1.on = FALSE]
                  [] i = 3 -> [stubs EXCEPT !.f1.on = TRUE]
                  [] i = 4 -> [stubs EXCEPT !.f2.on = TRUE]
    /\ i' = i + 1
    /\ UNCHANGED <<test, restVars, twVars, gateVars, freqVars, now, kwargs, af,
                   recordsLogged, call>>

\* the kinds of filter a replay is made through: the classes of filters.py,
\* the composite over the three others
Variants == {"ptf", "ff", "lambda", "and"}

\* the keyword arguments of the composite of a replay
ReplayKwargs ==
    [keys |-> <<NameB, NameA, NameAB>>,
     map |-> (NameA :> "ptf") @@ (NameAB :> "lambda") @@ (NameB :> "ff")]

\* the records of a replay
ReplayRecords ==
    {StubRecord(<<>>, DefaultLineno, 1, "/", ToString(1), ERROR),
     StubRecord(<<"ZeroDivisionError">>, DefaultLineno, 3, "/", ToString(1),
                ERROR),
     StubRecord(<<>>, DefaultLineno, 3, "/", ToString(2), WARN)}

\* filter.filter(record) for the filter of kind v over the objects objs
ReplayFilter(v, objs, record, clock) ==
    LET w == [stubs |-> objs.stubs, ff |-> objs.ff, ptf |-> objs.ptf,
              record |-> record]
        r == IF v = "and"
             THEN AndFilterFilter(AndFilter(ReplayKwargs), w, clock)
             ELSE ChildFilter(v, w, clock)
    IN  [objs |-> [stubs |-> r.w.stubs, ff |-> r.w.ff, ptf |-> r.w.ptf],
         ret |-> r.ret]

\* the next record of the sequence is filtered in both replays, in each
\* when its own clock reads what it reads
ReplayFeed ==
    /\ test = "replay"
    /\ i < MaxReplay
    /\ \E record \in ReplayRecords :
          runs' = [r \in 1..2 |->
                      LET res == ReplayFilter(variant, runs[r].objs, record,
                                              runs[r].now)
                      IN  [objs |-> res.objs,
                           now |-> runs[r].now,
                           decisions |-> Append(runs[r].decisions, res.ret),
                           dates |-> Append(runs[r].dates,
                                            runs[r].now.date)]]
    /\ i' = i + 1
    /\ UNCHANGED <<test, variant, mailVars, raceVars, twVars, gateVars, freqVars, now,
                   andVars, recordsLogged, call>>

\* the clock of one replay advances by half a day
ReplayTick ==
    /\ test = "replay"
    /\ \E r \in 1..2 :
          /\ runs[r].now.half = "am" \/ runs[r].now.date < MaxDay
          /\ runs' = [runs EXCEPT ![r].now =
                         IF @.half = "am" THEN [@ EXCEPT !.half = "pm"]
                         ELSE [date |-> @.date + 1, half |-> "am"]]
    /\ UNCHANGED <<test, i, variant, mailVars, raceVars, twVars, gateVars, freqVars,
                   now, andVars, recordsLogged, call>>

\* a thread begins ff.filter(record): the day check of _should_clear and
\* _clear, then the exception match and the key are computed
SamplerBegin(t) ==
    /\ test = "sampler_threads"
    /\ threads[t].pc = "idle"
    /\ i < MaxRaceCalls
    /\ LET cleared == IF ShouldClear(shared, now) THEN Clear(shared, now)
                      ELSE shared
           cls == GetExceptionMatch(cleared, PlainRecord)
       IN  /\ shared' = cleared
           /\ threads' = [threads EXCEPT ![t] =
                             [pc |-> "load", cls |-> cls,
                              key |-> GetKey(PlainRecord, cls)]]
    /\ i' = i + 1
    /\ UNCHANGED <<test, mailVars, replayVars, results, twVars, gateVars, freqVars,
                   now, andVars, recordsLogged, call>>

\* self.counter[record.key] += 1, first half: the thread reads the count
SamplerLoad(t) ==
    /\ test = "sampler_threads"
    /\ threads[t].pc = "load"
    /\ threads' = [threads EXCEPT ![t] =
                      [pc |-> "store", tmp |-> CounterGet(shared.counter, @.key)]
                      @@ @]
    /\ UNCHANGED <<test, i, mailVars, replayVars, shared, results, twVars, gateVars,
                   freqVars, now, andVars, recordsLogged, call>>

\* self.counter[record.key] += 1, second half: the thread stores the count
\* it read, plus one
SamplerStore(t) ==
    /\ test = "sampler_threads"
    /\ threads[t].pc = "store"
    /\ shared' = [shared EXCEPT !.counter =
                     (threads[t].key :> threads[t].tmp + 1) @@ @]
    /\ threads' = [threads EXCEPT ![t].pc = "count"]
    /\ UNCHANGED <<test, i, mailVars, replayVars, results, twVars, gateVars, freqVars,
                   now, andVars, recordsLogged, call>>

\* record.count = self.counter[record.key], and the decision is returned
SamplerCount(t) ==
    /\ test = "sampler_threads"
    /\ threads[t].pc = "count"
    /\ LET count == CounterGet(shared.counter, threads[t].key)
       IN  results' = Append(results,
                             [thread |-> t, key |-> threads[t].key,
                              count |-> count,
                              ret |-> ShouldLog(shared, count,
                                                threads[t].cls)])
    /\ threads' = [threads EXCEPT ![t] = Idle]
    /\ UNCHANGED <<test, i, mailVars, replayVars, shared, twVars, gateVars, freqVars,
                   now, andVars, recordsLogged, call>>

\* ProcessTimeFilter.__init__ for the gate the threads call; processes maps
\* a process id to the place in windows of the _TimeWindow object it refers
\* to, and windows holds every _TimeWindow object constructed
SharedGate(period, limit) ==
    [period |-> period, limit |-> limit, processes |-> <<>>,
     windows |-> <<>>]

\* the process id of the records of the threads
RacePid == ToString(1)

\* a thread's call is over: it returned ret or raised the exception ret
Returns(t, ret) ==
    /\ results' = Append(results, [thread |-> t, time |-> threads[t].time,
                                   ret |-> ret])
    /\ threads' = [threads EXCEPT ![t] = Idle]

\* a thread begins ptf.filter(record) and evaluates
\* record.process not in self.processes
GateBegin(t) ==
    /\ test = "gate_threads"
    /\ threads[t].pc = "idle"
    /\ i < MaxRaceCalls
    /\ \E created \in 0..MaxGateTime :
          threads' = [threads EXCEPT ![t] =
                         [pc |-> IF RacePid \notin DOMAIN shared.processes
                                 THEN "create" ELSE "lookup",
                          process |-> RacePid, time |-> created]]
    /\ i' = i + 1
    /\ UNCHANGED <<test, mailVars, replayVars, shared, results, twVars, gateVars,
                   freqVars, now, andVars, recordsLogged, call>>

\* self.processes[record.process] = _TimeWindow(self.period, self.limit)
GateCreate(t) ==
    /\ test = "gate_threads"
    /\ threads[t].pc = "create"
    /\ shared' = [shared EXCEPT
                     !.windows = Append(@, TimeWindow(shared.period,
                                                      shared.limit)),
                     !.processes = (threads[t].process :>
                                       Len(shared.windows) + 1) @@ @]
    /\ threads' = [threads EXCEPT ![t].pc = "lookup"]
    /\ UNCHANGED <<test, i, mailVars, replayVars, results, twVars, gateVars, freqVars,
                   now, andVars, recordsLogged, call>>

\* self.processes[record.process]: the window add is called on
GateLookup(t) ==
    /\ test = "gate_threads"
    /\ threads[t].pc = "lookup"
    /\ threads' = [threads EXCEPT ![t] =
                      [pc |-> "len",
                       window |-> shared.processes[threads[t].process]] @@ @]
    /\ UNCHANGED <<test, i, mailVars, replayVars, shared, results, twVars, gateVars,
                   freqVars, now, andVars, recordsLogged, call>>

\* add: if len(self.window) < self.limit
AddLen(t) ==
    /\ test = "gate_threads"
    /\ threads[t].pc = "len"
    /\ LET self == shared.windows[threads[t].window]
       IN  threads' = [threads EXCEPT ![t].pc =
                          IF Len(self.window) < self.limit THEN "append"
                          ELSE "head"]
    /\ UNCHANGED <<test, i, mailVars, replayVars, shared, results, twVars, gateVars,
                   freqVars, now, andVars, recordsLogged, call>>

\* add: if time - self.window[0] > self.period, else return False;
\* self.window[0] raises IndexError on an empty deque
AddHead(t) ==
    /\ test = "gate_threads"
    /\ threads[t].pc = "head"
    /\ LET self == shared.windows[threads[t].window]
       IN  IF self.window = <<>>
           THEN Returns(t, "IndexError")
           ELSE IF threads[t].time - self.window[1] > self.period
                THEN /\ threads' = [threads EXCEPT ![t].pc = "popleft"]
                     /\ UNCHANGED results
                ELSE Returns(t, FALSE)
    /\ UNCHANGED <<test, i, mailVars, replayVars, shared, twVars, gateVars, freqVars,
                   now, andVars, recordsLogged, call>>

\* add: self.window.popleft(), which raises IndexError on an empty deque
AddPopleft(t) ==
    /\ test = "gate_threads"
    /\ threads[t].pc = "popleft"
    /\ LET self == shared.windows[threads[t].window]
       IN  IF self.window = <<>>
           THEN Returns(t, "IndexError") /\ UNCHANGED shared
           ELSE /\ shared' = [shared EXCEPT
                                 !.windows[threads[t].window].window =
                                     Tail(@)]
                /\ threads' = [threads EXCEPT ![t].pc = "append"]
                /\ UNCHANGED results
    /\ UNCHANGED <<test, i, mailVars, replayVars, twVars, gateVars, freqVars, now,
                   andVars, recordsLogged, call>>

\* add: self.window.append(time); return True
AddAppend(t) ==
    /\ test = "gate_threads"
    /\ threads[t].pc = "append"
    /\ shared' = [shared EXCEPT !.windows[threads[t].window].window =
                     Append(@, threads[t].time)]
    /\ Returns(t, TRUE)
    /\ UNCHANGED <<test, i, mailVars, replayVars, twVars, gateVars, freqVars, now,
                   andVars, recordsLogged, call>>

\* the email clients of emailclients.py
Clients == {"StubEmailer", "SendGridEmail", "MandrillEmail"}

\* the i-th record passed to the email handler
MailRecords ==
    {LogRecord("message " \o ToString(i + 1), exc_info, DefaultLineno, i) :
        exc_info \in {<<>>, <<"ZeroDivisionError">>}}

\* handler.handle(record) on the email handler with the sampler as its
\* filter: logging.Handler.handle calls the filter, and emit if it admits
MailHandle ==
    /\ test = "email_handler"
    /\ i < MaxHandles
    /\ \E record \in MailRecords, notify \in BOOLEAN, fails \in BOOLEAN :
          LET f == FrequencyFilterFilter(ff, record, now)
              h == EmailHandle(handler, f.record, f.ret, mailer, notify,
                               fails)
          IN  /\ ff' = f.self
              /\ handler' = h.self
              /\ mailer' = IF f.ret /\ h.emit.sent = "sent"
                           THEN [mailer EXCEPT !.taken = @ + 1] ELSE mailer
              /\ errors' = IF f.ret /\ h.emit.handleError THEN errors + 1
                           ELSE errors
              /\ handled' = Append(handled, [msg |-> h.msg, rv |-> f.ret])
              /\ call' = [op |-> "handle", record |-> f.record,
                          msg |-> h.msg, rv |-> f.ret, emit |-> h.emit,
                          raises |-> h.raises]
    /\ i' = i + 1
    /\ UNCHANGED <<test, replayVars, raceVars, twVars, gateVars, tally,
                   seenDate, now, andVars, recordsLogged>>

-----------------------------------------------------------------------------
(***************************************************************************)
(* Specifications                                                          *)
(***************************************************************************)

InitTW ==
    /\ test \in {"free", "time_window"}
    /\ i = 0
    /\ tw \in IF test = "free"
              THEN {TimeWindow(p, l) : p \in 1..MaxPeriod, l \in 1..MaxLimit}
              ELSE {TimeWindow(TestPeriod, TestLimit)}
    /\ lastTime = 0
    /\ admitted = <<>>
    /\ GateIdle
    /\ FreqIdle
    /\ AndIdle
    /\ recordsLogged = 0
    /\ RestIdle
    /\ call = NoCall

NextTW == TwFreeAdd \/ TwTestAdd

SpecTW == InitTW /\ [][NextTW]_vars

InitMono ==
    /\ test = "mono"
    /\ i = 0
    /\ tw \in {TimeWindow(p, l) : p \in 1..MaxPeriod, l \in 1..MaxLimit}
    /\ lastTime = 0
    /\ admitted = <<>>
    /\ GateIdle
    /\ FreqIdle
    /\ AndIdle
    /\ recordsLogged = 0
    /\ RestIdle
    /\ call = NoCall

NextMono == TwMonoAdd

SpecMono == InitMono /\ [][NextMono]_vars

InitGate ==
    /\ test \in {"free", "process_time_filter"}
    /\ i = 0
    /\ TwIdle
    /\ IF test = "free"
       THEN \E pl \in GateParams : GateStarts(pl[1], pl[2])
       ELSE GateStarts(TestPeriod, TestLimit)
    /\ FreqIdle
    /\ AndIdle
    /\ recordsLogged = 0
    /\ RestIdle
    /\ call = NoCall

NextGate == GateFreeHandle \/ GateTestHandle

SpecGate == InitGate /\ [][NextGate]_vars

\* exception_types and exception_frequency of the samplers of the free driver
FreqParams ==
    {<<(<<"ZeroDivisionError">>), 2>>,
     <<(<<"ArithmeticError", "ZeroDivisionError", "KeyError">>), 3>>}

InitFreq ==
    /\ test \in {"free", "frequency_filter", "exception_records"}
    /\ i = 0
    /\ TwIdle
    /\ GateIdle
    /\ IF test = "free"
       THEN \E tf \in FreqParams : FreqStarts(tf[1], tf[2])
       ELSE FreqStarts(<<"ZeroDivisionError">>, TestFrequency)
    /\ AndIdle
    /\ recordsLogged = 0
    /\ RestIdle
    /\ call = NoCall

NextFreq ==
    FreqFreeHandle \/ FreqPlainFilter \/ FreqExceptionHandle \/ ClockTick

SpecFreq == InitFreq /\ [][NextFreq]_vars

\* the keyword arguments of the composites of the free driver
AndKwargs ==
    {<<>>,
     (NameA :> "f1") @@ (NameB :> "f2"),
     (NameB :> "f1") @@ (NameAB :> "ff") @@ (NameA :> "f2"),
     (NameA :> "f1") @@ (NameZ :> "ptf") @@ (NameAB :> "lambda")}

InitAnd ==
    /\ test \in {"free", "and_filter"}
    /\ i = 0
    /\ TwIdle
    /\ GateIdle
    /\ FreqStarts(<<"ZeroDivisionError">>, 2)
    /\ IF test = "free"
       THEN \E map \in AndKwargs, on1, on2 \in BOOLEAN :
               AndStarts(map, on1, on2)
       ELSE AndStarts((NameA :> "f1") @@ (NameB :> "f2"), TRUE, FALSE)
    /\ recordsLogged = 0
    /\ RestIdle
    /\ call = NoCall

NextAnd ==
    AndFreeHandle \/ AndFreeSetOn \/ AndTestHandle \/ AndTestSetOn
       \/ ClockTick

SpecAnd == InitAnd /\ [][NextAnd]_vars

\* two replays of one sequence of records, each through filters it
\* constructs at midnight of day 0
InitReplay ==
    /\ test = "replay"
    /\ i = 0
    /\ TwIdle
    /\ GateIdle
    /\ FreqIdle
    /\ AndIdle
    /\ RaceIdle
    /\ MailIdle
    /\ recordsLogged = 0
    /\ variant \in Variants
    /\ runs = [r \in 1..2 |-> ReplayStarts(Midnight)]
    /\ call = NoCall

NextReplay == ReplayFeed \/ ReplayTick

SpecReplay == InitReplay /\ [][NextReplay]_vars

\* threads that call one sampler with records of one key, on one day
InitSamplerRace ==
    /\ test = "sampler_threads"
    /\ i = 0
    /\ TwIdle
    /\ GateIdle
    /\ FreqIdle
    /\ AndIdle
    /\ ReplayIdle
    /\ RaceStarts(FrequencyFilter(<<"ZeroDivisionError">>, TestFrequency,
                                  Midnight))
    /\ MailIdle
    /\ recordsLogged = 0
    /\ call = NoCall

NextSamplerRace ==
    \E t \in Threads :
        SamplerBegin(t) \/ SamplerLoad(t) \/ SamplerStore(t) \/ SamplerCount(t)

SpecSamplerRace == InitSamplerRace /\ [][NextSamplerRace]_vars

\* threads that call one gate with records of one process id
InitGateRace ==
    /\ test = "gate_threads"
    /\ i = 0
    /\ TwIdle
    /\ GateIdle
    /\ FreqIdle
    /\ AndIdle
    /\ ReplayIdle
    /\ \E pl \in GateParams : RaceStarts(SharedGate(pl[1], pl[2]))
    /\ MailIdle
    /\ recordsLogged = 0
    /\ call = NoCall

NextGateRace ==
    \E t \in Threads :
        \/ GateBegin(t) \/ GateCreate(t) \/ GateLookup(t)
        \/ AddLen(t) \/ AddHead(t) \/ AddPopleft(t) \/ AddAppend(t)

SpecGateRace == InitGateRace /\ [][NextGateRace]_vars

\* an email handler with one of the clients and a sampler as its filter
InitMail ==
    /\ test = "email_handler"
    /\ i = 0
    /\ TwIdle
    /\ GateIdle
    /\ FreqStarts(<<"ZeroDivisionError">>, 2)
    /\ AndIdle
    /\ ReplayIdle
    /\ RaceIdle
    /\ \E client \in Clients, historylen \in 0..MaxHistory :
          MailStarts(client, historylen)
    /\ recordsLogged = 0
    /\ call = NoCall

NextMail == MailHandle

SpecMail == InitMail /\ [][NextMail]_vars

-----------------------------------------------------------------------------
(***************************************************************************)
(* Properties of _TimeWindow                                               *)
(***************************************************************************)

\* the timestamps test_time_window expects add to admit
TestWindowAdmitted == {0, 1, 11, 12}

\* C1: with positive period and limit, add(t) returns true exactly when
\* the window holds fewer than limit timestamps or t minus the head of the
\* window is strictly greater than period (a difference equal to period is
\* rejected); with period 10 and limit 2, of add(0)..add(19) exactly
\* add(0), add(1), add(11) and add(12) return true.
C1_AddAdmits ==
    [][call'.op = "add" =>
          /\ call'.ret <=> \/ Len(tw.window) < tw.limit
                           \/ call'.time - Head(tw.window) > tw.period
          /\ (Len(tw.window) = tw.limit
                /\ call'.time - Head(tw.window) = tw.period) => ~call'.ret
          /\ test = "time_window" =>
                (call'.ret <=> call'.time \in TestWindowAdmitted)]_vars

\* C1 witness: in test_time_window, add(10) on the window <<0, 1>> (a
\* difference equal to the period) was rejected
C1_Witness ==
    /\ test = "time_window"
    /\ call.op = "add" /\ call.time = TestPeriod /\ ~call.ret
    /\ tw.window = <<0, 1>>

\* C2: after any sequence of add calls on a window with limit >= 1, the
\* number of timestamps held never exceeds limit.
C2_SizeBounded ==
    tw.limit >= 1 => Len(tw.window) <= tw.limit

\* C2 witness: a full window has just admitted one more timestamp
C2_Witness ==
    /\ call.op = "add" /\ call.ret
    /\ call.held = tw.limit
    /\ Len(tw.window) = tw.limit
    /\ tw.window[Len(tw.window)] = call.time

\* C3: with non-decreasing timestamps, any limit+1 admitted timestamps span
\* strictly more than period, so no closed interval of length period holds
\* more than limit admitted timestamps.
C3_RateBounded ==
    /\ \A a, b \in DOMAIN admitted :
          b - a >= tw.limit => admitted[b] - admitted[a] > tw.period
    /\ \A s \in 0..MaxMonoTime :
          Cardinality({k \in DOMAIN admitted :
                          s <= admitted[k] /\ admitted[k] <= s + tw.period})
             <= tw.limit

\* C3 witness: more than limit timestamps were admitted, the last by an
\* eviction
C3_Witness ==
    /\ test = "mono"
    /\ Len(admitted) > tw.limit + 1
    /\ call.op = "add" /\ call.ret /\ call.held = tw.limit

-----------------------------------------------------------------------------
(***************************************************************************)
(* Properties of ProcessTimeFilter                                         *)
(***************************************************************************)

\* C4: the gate's decision for a record is the decision of a standalone
\* window with the gate's period and limit fed only the created timestamps
\* of the records with the same process id; with period 10 and limit 2, the
\* 100 records of test_process_time_filter give 10 admissions per process
\* id, 20 in total.
C4_PerProcess ==
    /\ call.op = "filter" => call.ret = call.solo
    /\ \A p \in DOMAIN ptf.processes : ptf.processes[p] = solo[p]
    /\ (test = "process_time_filter" /\ i = TestGateRecords) =>
          /\ \A p \in Pids : passed[p] = 10
          /\ recordsLogged = 20

\* C4 witness: test_process_time_filter has fed its 100 records
C4_Witness ==
    /\ test = "process_time_filter" /\ i = TestGateRecords
    /\ call.op = "filter"
    /\ DOMAIN ptf.processes = Pids

-----------------------------------------------------------------------------
(***************************************************************************)
(* Properties of FrequencyFilter                                           *)
(***************************************************************************)

\* the configured exception types a record's exception is a subtype of
MatchedTypes(record) ==
    IF record.exc_info = <<>> THEN {}
    ELSE {ff.exception_types[k] : k \in
             {j \in DOMAIN ff.exception_types :
                 issubclass(record.exc_info[1], ff.exception_types[j])}}

\* the admissions of the default policy among counts 1..n
DefaultAdmissions(n) ==
    (IF n >= 1 THEN 1 ELSE 0) + (IF n >= 10 THEN 1 ELSE 0)
        + (IF n >= 100 THEN 1 ELSE 0) + (n \div 1000)

\* no call of the sampler was made on a later date than its construction
NoRollover == seenDate = GetDateKey(Midnight)

\* C5: an unclassified record (no error, or an error matching no configured
\* type) is admitted iff the running count of its key after the call is 1,
\* 10, 100 or a multiple of 1000; 5000 records with the same level, path
\* and line admit exactly 8.
C5_DefaultPolicy ==
    /\ (call.op = "freq" /\ MatchedTypes(call.record) = {}) =>
          LET count == CounterGet(ff.counter, call.record.key)
          IN  /\ call.ret <=> \/ count \in {1, 10, 100}
                              \/ count % 1000 = 0
              /\ count = TallyGet(call.bucket).fed
              /\ call.bucket = <<None, call.record.levelname,
                                 call.record.pathname, call.record.lineno>>
    /\ \A b \in DOMAIN tally :
          b[1] = None =>
             /\ tally[b].admits = DefaultAdmissions(tally[b].fed)
             /\ tally[b].fed = TestPlainRecords => tally[b].admits = 8

\* C5 witness: the 5000th record of the stream, with no rollover, is the
\* 8th admitted
C5_Witness ==
    /\ test = "frequency_filter" /\ NoRollover
    /\ call.op = "freq" /\ call.ret
    /\ call.record.count = TestPlainRecords
    /\ tally[call.bucket] = [fed |-> TestPlainRecords, admits |-> 8]

\* C6: a record classified to a configured exception type is admitted iff
\* the running count of its key after the call is a multiple of
\* exception_frequency; the count is that of the records of the same type
\* name, path and line, apart from the unclassified records; n records of
\* one key admit floor(n / exception_frequency).
C6_ExceptionPolicy ==
    /\ (call.op = "freq" /\ MatchedTypes(call.record) # {}) =>
          LET count == CounterGet(ff.counter, call.record.key)
          IN  /\ call.ret <=> count % ff.exception_frequency = 0
              /\ call.cls \in MatchedTypes(call.record)
              /\ call.bucket = <<call.cls, "", call.record.pathname,
                                 call.record.lineno>>
              /\ count = TallyGet(call.bucket).fed
    /\ \A b \in DOMAIN tally :
          b[1] # None =>
             tally[b].admits = tally[b].fed \div ff.exception_frequency

\* C6 witness: an admitted exception record of a key counted apart from a
\* second key, more than one admission in
C6_Witness ==
    /\ call.op = "freq" /\ call.ret /\ call.cls # None
    /\ Cardinality(DOMAIN tally) >= 2
    /\ tally[call.bucket].admits >= 2

\* test_frequency_filter's second loop has fed its 100 records in one day
ExceptionRecordsFed ==
    test = "exception_records" /\ i = TestExceptionRecords /\ NoRollover

\* C7 as stated: with exception_frequency 10, 100 records alternating
\* between two source lines with the same matched exception type yield 10
\* admissions per key, 20 in total.
C7_TenPerKey ==
    ExceptionRecordsFed =>
       /\ \A b \in DOMAIN tally : tally[b].admits = 10
       /\ recordsLogged = 20

\* C7, amended: the 100 records are 50 per key and yield 5 admissions per
\* key, 10 in total.
C7_FivePerKey ==
    ExceptionRecordsFed =>
       /\ Cardinality(DOMAIN tally) = 2
       /\ \A b \in DOMAIN tally : tally[b] = [fed |-> 50, admits |-> 5]
       /\ recordsLogged = 10

\* C7 witness: the 100th record has been fed, in one day
C7_Witness ==
    /\ ExceptionRecordsFed
    /\ call.op = "freq" /\ call.ret /\ call.record.count = 50

\* C8: a call made when the date differs from the stored last-reset date
\* clears all counts and stores the date before it counts the record, so the
\* record gets count 1 (and is admitted if unclassified); a call made when
\* the date is unchanged clears no count.
C8_DayReset ==
    [][(ff' # ff) =>
          IF GetDateKey(now) # ff.last_cleared_date
          THEN /\ ff'.last_cleared_date = GetDateKey(now)
               /\ DOMAIN ff'.counter = {call'.record.key}
               /\ ff'.counter[call'.record.key] = 1
               /\ call'.record.count = 1
               /\ MatchedTypes(call'.record) = {} => call'.ret
          ELSE /\ ff'.last_cleared_date = ff.last_cleared_date
               /\ \A k \in DOMAIN ff.counter :
                     /\ k \in DOMAIN ff'.counter
                     /\ ff'.counter[k] >= ff.counter[k]]_vars

\* C8 witness: a record whose key had reached 1000 is counted 1 and admitted
\* by the first call of the next day
C8_Witness ==
    /\ call.op = "freq" /\ call.rolled
    /\ call.before >= 1000
    /\ call.record.count = 1 /\ call.ret

-----------------------------------------------------------------------------
(***************************************************************************)
(* Properties of AndFilter                                                 *)
(***************************************************************************)

\* the children of the composite and the keyword each was given as
Children == {kwargs.map[n] : n \in DOMAIN kwargs.map}

NameOf(f) == CHOOSE n \in DOMAIN kwargs.map : kwargs.map[n] = f

\* x comes before y in lexicographic order: at the first place they differ
\* x has ended or has the smaller character
Precedes(x, y) ==
    \E p \in 1..Len(y) :
       /\ \A q \in 1..(p - 1) : q <= Len(x) /\ x[q] = y[q]
       /\ p > Len(x) \/ x[p] < y[p]

\* C9: the composite returns true for a record iff every one of its
\* children returns true for that record: a call whose children all admit
\* returns true, and one rejecting child makes the result false.
C9_AndResult ==
    [][(call' # call /\ call'.op = "and") =>
          LET w == [stubs |-> stubs, ff |-> ff, ptf |-> ptf,
                    record |-> call'.input]
              inv == call'.invoked
          IN  /\ call'.ret <=>
                    \A f \in Children : ChildFilter(f, w, now).ret
              /\ call'.ret <=> \A j \in DOMAIN inv : inv[j].ret
              /\ recordsLogged' = recordsLogged + IF call'.ret THEN 1 ELSE 0
      ]_vars

\* C9 witness: a composite of three children has admitted a record
C9_Witness ==
    /\ call.op = "and" /\ call.ret
    /\ Cardinality(Children) = 3
    /\ Len(call.invoked) = 3
    /\ recordsLogged > 0

\* C10: the children are invoked in ascending lexicographic order of their
\* keywords whatever the order they were supplied in; a child is invoked
\* iff every child with a smaller keyword returned true; a child that is
\* not invoked keeps its state and writes nothing on the record. In
\* test_and_filter the hits of (f1, f2) are (1, 1), (2, 1) and (3, 2) and
\* only the third record is logged.
C10_ShortCircuit ==
    [][(call' # call /\ call'.op = "and") =>
          LET inv == call'.invoked
              Called(c) == \E j \in DOMAIN inv : inv[j].f = c
              Admitted(c) == \E j \in DOMAIN inv : inv[j].f = c /\ inv[j].ret
          IN  /\ \A j, k \in DOMAIN inv :
                    j < k => Precedes(NameOf(inv[j].f), NameOf(inv[k].f))
              /\ \A c \in Children :
                    Called(c) <=>
                       \A d \in Children :
                          Precedes(NameOf(d), NameOf(c)) => Admitted(d)
              /\ \A c \in DOMAIN stubs :
                    stubs'[c] = IF c \in Children /\ Called(c)
                                THEN [stubs[c] EXCEPT !.hit = @ + 1]
                                ELSE stubs[c]
              /\ ~Called("ff") => ff' = ff /\ call'.record = call'.input
              /\ ~Called("ptf") => ptf' = ptf
              /\ test = "and_filter" =>
                    /\ i' = 1 => /\ stubs'.f1.hit = 1 /\ stubs'.f2.hit = 1
                                 /\ recordsLogged' = 0
                    /\ i' = 3 => /\ stubs'.f1.hit = 2 /\ stubs'.f2.hit = 1
                                 /\ recordsLogged' = 0
                    /\ i' = 6 => /\ stubs'.f1.hit = 3 /\ stubs'.f2.hit = 2
                                 /\ recordsLogged' = 1
      ]_vars

\* C10 witness: keywords supplied out of order, the first child in keyword
\* order has rejected the record, and a child with side effects was not
\* invoked
C10_Witness ==
    /\ call.op = "and" /\ ~call.ret
    /\ kwargs.keys # ListSort(kwargs.keys)
    /\ Len(call.invoked) = 1 /\ Len(af.filters) = 3
    /\ "ff" \in Children
    /\ ff.counter = <<>>

-----------------------------------------------------------------------------
(***************************************************************************)
(* Frame of FrequencyFilter.filter                                         *)
(***************************************************************************)

\* the call of this step counted its record's key up by one and touched no
\* other key
CountedOne ==
    LET key == call'.record.key
    IN  /\ ff'.counter[key] = CounterGet(ff.counter, key) + 1
        /\ \A k \in (DOMAIN ff.counter \cup DOMAIN ff'.counter) \ {key} :
              CounterGet(ff'.counter, k) = CounterGet(ff.counter, k)

\* after the call of this step the count on the record is the stored count
\* of the key on the record, and the number of calls made with records of
\* that kind since the last day reset
CountAttached ==
    /\ call'.op = "freq"
    /\ call'.record.count = CounterGet(ff'.counter, call'.record.key)
    /\ call'.record.count = tally'[call'.bucket].fed

\* C11 as stated: after each call the count on the record is the stored
\* count of its key and the number of calls with that key since the last
\* day reset; the call increases that key's count by exactly 1 and leaves
\* the counts of all other keys unchanged.
C11_EveryCallCountsOne ==
    [][(ff' # ff) => CountAttached /\ CountedOne]_vars

\* C11, amended: a call made on the stored last-reset date increases the
\* key's count by exactly 1 and leaves the other counts unchanged; a call
\* made on another date leaves the record's key at 1 and holds no other key.
C11_CountFrame ==
    [][(ff' # ff) =>
          /\ CountAttached
          /\ IF GetDateKey(now) = ff.last_cleared_date
             THEN CountedOne
             ELSE ff'.counter = (call'.record.key :> 1)]_vars

\* C11 witness: a call without a day reset has counted a key a second time
\* beside another key
C11_Witness ==
    /\ call.op = "freq" /\ ~call.rolled
    /\ call.record.count >= 2
    /\ call.record.count = call.before + 1
    /\ Cardinality(DOMAIN ff.counter) >= 2

-----------------------------------------------------------------------------
(***************************************************************************)
(* Classification of records by the sampler                                *)
(***************************************************************************)

\* the key of a record the sampler left unclassified
DefaultKey(record) ==
    Md5(record.levelname \o "." \o record.pathname \o "."
            \o ToString(record.lineno))

\* the positions of the configured types the record's exception is a
\* subtype of
MatchedPositions(record) ==
    IF record.exc_info = <<>> THEN {}
    ELSE {j \in DOMAIN ff.exception_types :
             issubclass(record.exc_info[1], ff.exception_types[j])}

\* the last call left its record unclassified: no type matched, the key is
\* the default key and the decision follows the default policy
Unclassified ==
    /\ call.cls = None
    /\ call.record.key = DefaultKey(call.record)
    /\ call.ret = (call.record.count \in {1, 10, 100}
                      \/ call.record.count % 1000 = 0)

\* C15 as stated: the sampler classifies a record if and only if its error
\* type is a subtype of exactly one configured type; a record with no
\* error, matching none, or matching two or more is unclassified and gets
\* the default policy and key.
C15_ExactlyOneMatch ==
    call.op = "freq" =>
        IF Cardinality(MatchedPositions(call.record)) = 1
        THEN call.cls = ff.exception_types[
                            CHOOSE j \in MatchedPositions(call.record) : TRUE]
        ELSE Unclassified

\* C15, amended: the sampler classifies a record if and only if its error
\* type is a subtype of at least one configured type, and then under the
\* first such type in configuration order; a record with no error or
\* matching none is unclassified and gets the default policy and key.
C15_FirstMatch ==
    call.op = "freq" =>
        IF MatchedPositions(call.record) # {}
        THEN /\ call.cls # None
             /\ \E j \in MatchedPositions(call.record) :
                   /\ call.cls = ff.exception_types[j]
                   /\ \A k \in MatchedPositions(call.record) : j <= k
        ELSE Unclassified

\* C15 witness: a record whose error type is a subtype of two configured
\* types was classified under the first of them
C15_Witness ==
    /\ call.op = "freq"
    /\ Cardinality(MatchedPositions(call.record)) >= 2
    /\ call.cls = ff.exception_types[1]
    /\ call.cls # call.record.exc_info[1]

-----------------------------------------------------------------------------
(***************************************************************************)
(* Frame of _TimeWindow.add                                                *)
(***************************************************************************)

\* the timestamps of a window are in non-decreasing order
NonDecreasing(window) ==
    \A j, k \in 1..Len(window) : j <= k => window[j] <= window[k]

\* C16: an add that returns false leaves the window unchanged; an add that
\* returns true on a full window removes exactly the head and appends the
\* new timestamp at the tail, so the size stays limit; while the timestamps
\* given are non-decreasing the held sequence is non-decreasing, so its
\* head is its smallest element.
C16_AddFrame ==
    [][   /\ call'.op = "add"
          /\ tw'.period = tw.period /\ tw'.limit = tw.limit
          /\ ~call'.ret => tw'.window = tw.window
          /\ (call'.ret /\ Len(tw.window) = tw.limit) =>
                /\ Len(tw'.window) = tw.limit
                /\ \A k \in 1..(tw.limit - 1) :
                      tw'.window[k] = tw.window[k + 1]
                /\ tw'.window[tw.limit] = call'.time
          /\ call'.inOrder =>
                /\ NonDecreasing(tw'.window)
                /\ \A k \in 1..Len(tw'.window) :
                      tw'.window[1] <= tw'.window[k]]_vars

\* C16 witness: with non-decreasing timestamps an add on a full window of
\* two evicted the head, and the window holds the old tail and the new
\* timestamp
C16_Witness ==
    /\ call.op = "add" /\ call.ret /\ call.inOrder
    /\ call.held = tw.limit /\ tw.limit = 2
    /\ tw.window[1] < tw.window[2]
    /\ tw.window[2] = call.time

-----------------------------------------------------------------------------
(***************************************************************************)
(* The gate's mapping from process ids to windows                          *)
(***************************************************************************)

\* the process ids a record has been filtered for
SeenPids == {p \in Pids : solo[p].window # <<>>}

\* the call of this step kept the window of process id p: its period and
\* limit are the same and it holds what it held, with at most the record's
\* timestamp added and, if it was full, the head dropped
WindowKept(p, time) ==
    LET old == ptf.processes[p]
        new == ptf'.processes[p]
    IN  /\ new.period = old.period /\ new.limit = old.limit
        /\ \/ new.window = old.window
           \/ new.window = Append(old.window, time)
           \/ /\ Len(old.window) = old.limit
              /\ new.window = Append(Tail(old.window), time)

\* C17: a window is mapped for a process id from the first record with that
\* id on: the mapped ids are the ids seen; a call maps the record's id if it
\* was not mapped, removes no entry, replaces no entry by another window and
\* changes the window of no other process id.
C17_EntriesStay ==
    [][LET p == call'.record.process
       IN  /\ call'.op = "filter"
           /\ DOMAIN ptf.processes = SeenPids
           /\ DOMAIN ptf'.processes = SeenPids'
           /\ DOMAIN ptf'.processes = DOMAIN ptf.processes \cup {p}
           /\ \A q \in DOMAIN ptf.processes \ {p} :
                 ptf'.processes[q] = ptf.processes[q]
           /\ IF p \in DOMAIN ptf.processes
              THEN WindowKept(p, call'.record.created)
              ELSE ptf'.processes[p] =
                      [TimeWindow(ptf.period, ptf.limit) EXCEPT
                          !.window = <<call'.record.created>>]]_vars

\* C17 witness: with both process ids mapped and the window of each holding
\* a timestamp, a later record of one id was rejected
C17_Witness ==
    /\ call.op = "filter" /\ ~call.ret
    /\ DOMAIN ptf.processes = Pids
    /\ \A p \in Pids : ptf.processes[p].window # <<>>
    /\ test = "free"

-----------------------------------------------------------------------------
(***************************************************************************)
(* Bursts of admitted timestamps                                           *)
(***************************************************************************)

\* the admitted timestamps, by position, in the closed interval of length
\* period that starts at s
AdmittedWithin(adm, s, period) ==
    {k \in DOMAIN adm : s <= adm[k] /\ adm[k] <= s + period}

\* more than limit admitted timestamps lie in an interval of length period
Burst(adm, period, limit) ==
    \E j \in DOMAIN adm :
        Cardinality(AdmittedWithin(adm, adm[j], period)) > limit

\* the add calls of seq made in order on the window self: the window after
\* them, the timestamps admitted, and whether the last call evicted
RECURSIVE RunAdds(_, _)
RunAdds(self, seq) ==
    IF seq = <<>>
    THEN [self |-> self, admitted |-> <<>>, evicted |-> FALSE]
    ELSE LET time == seq[Len(seq)]
             before == RunAdds(self, SubSeq(seq, 1, Len(seq) - 1))
             r == TimeWindowAdd(before.self, time)
         IN  [self |-> r.self,
              admitted |-> IF r.ret THEN Append(before.admitted, time)
                           ELSE before.admitted,
              evicted |-> r.ret /\ Len(before.self.window) = self.limit]

\* C18 as stated: there is a sequence of add calls with non-decreasing
\* timestamps after which, immediately following an eviction, more than
\* limit admitted timestamps lie within a single interval of length period
\* (stated of the windows no call was made on yet: for some period and
\* limit, some sequence run on a new window ends so).
C18_BurstAfterEviction ==
    (call = NoCall) =>
        \E period \in 1..MaxPeriod, limit \in 1..MaxLimit,
           n \in 1..MaxRunLen :
            \E seq \in [1..n -> 0..MaxTime] :
                /\ NonDecreasing(seq)
                /\ LET r == RunAdds(TimeWindow(period, limit), seq)
                   IN  r.evicted /\ Burst(r.admitted, period, limit)

\* C18, amended: the window allows no such burst: after any sequence of add
\* calls, with timestamps in any order, also immediately following an
\* eviction, at most limit admitted timestamps lie within any single
\* interval of length period.
C18_NoBurst == ~Burst(admitted, tw.period, tw.limit)

\* C18 witness: timestamps were given out of order, the last add evicted,
\* and an interval of length period holds limit admitted timestamps, two of
\* them
C18_Witness ==
    /\ call.op = "add" /\ call.ret /\ call.held = tw.limit
    /\ ~call.inOrder
    /\ tw.limit = 2 /\ Len(admitted) > tw.limit
    /\ \E j \in DOMAIN admitted :
          Cardinality(AdmittedWithin(admitted, admitted[j], tw.period)) = 2

-----------------------------------------------------------------------------
(***************************************************************************)
(* Replays of a sequence of records                                        *)
(***************************************************************************)

\* C12 as stated: two replays of one sequence of records, each through a
\* newly constructed filter of the same kind, give the same sequence of
\* decisions: the decisions depend on nothing but the records and their
\* order.
C12_SameDecisions == runs[1].decisions = runs[2].decisions

\* C12, amended: the two replays give the same sequence of decisions if the
\* filter is a gate or a predicate wrapper, or if each record is filtered on
\* the same UTC date in both replays: the decisions of a sampler, and of a
\* composite that holds one, depend on the records, their order and the
\* dates of the calls.
C12_SameDecisionsSameDates ==
    (variant \in {"ptf", "lambda"} \/ runs[1].dates = runs[2].dates)
        => runs[1].decisions = runs[2].decisions

\* C12 witness: two replays through a sampler filtered each record on the
\* same date, the last on another date than the first, at different times of
\* the day, and a record was rejected
C12_Witness ==
    /\ variant = "ff" /\ i = MaxReplay
    /\ runs[1].dates = runs[2].dates
    /\ runs[1].dates[1] # runs[1].dates[MaxReplay]
    /\ runs[1].now # runs[2].now
    /\ \E k \in 1..MaxReplay : ~runs[1].decisions[k]

-----------------------------------------------------------------------------
(***************************************************************************)
(* Threads that call one filter                                            *)
(***************************************************************************)

\* no thread is in a call
AllReturned == \A t \in Threads : threads[t].pc = "idle"

\* C13: calls of several threads on one sampler with records of one key on
\* one day are linearized: once n calls have completed the stored count of
\* the key is n and the counts attached to the n records are 1..n, each
\* once.
C13_Linearized ==
    (AllReturned /\ results # <<>>) =>
        LET n == Len(results)
        IN  /\ CounterGet(shared.counter, results[1].key) = n
            /\ \A c \in 1..n :
                  Cardinality({k \in 1..n : results[k].count = c}) = 1

\* the timestamps of the calls the threads have begun
RaceTimes ==
    {results[k].time : k \in DOMAIN results}
        \cup {threads[t].time : t \in {u \in Threads : threads[u].pc # "idle"}}

\* C14: of the calls of several threads on one gate with records of one
\* process id and timestamps within one period, at most limit return true;
\* only one window is ever constructed for the id and it never holds more
\* than limit timestamps.
C14_Serialized ==
    (\A a, b \in RaceTimes : a - b <= shared.period) =>
        /\ Cardinality({k \in DOMAIN results : results[k].ret = TRUE})
              <= shared.limit
        /\ Len(shared.windows) <= 1
        /\ \A w \in DOMAIN shared.windows :
              Len(shared.windows[w].window) <= shared.limit

-----------------------------------------------------------------------------
(***************************************************************************)
(* Properties of EmailHandler                                              *)
(***************************************************************************)

\* the last n items of a sequence, or all of it if it has fewer
LastOf(seq, n) ==
    IF Len(seq) <= n THEN seq ELSE SubSeq(seq, Len(seq) - n + 1, Len(seq))

\* the messages of the records passed to handle
HandledMessages == [k \in DOMAIN handled |-> handled[k].msg]

\* C19: the history never holds more than historylen messages; the body of
\* an emitted email lists, after its head, the formatted messages of the
\* min(k, historylen) records most recently passed to handle before this
\* one, oldest first, admitted or not, and then the current message; the
\* current message joins the history only after its own emit.
C19_HistoryInBody ==
    /\ Len(handler.history) <= handler.maxlen
    /\ call.op = "handle" =>
          LET prior == SubSeq(HandledMessages, 1, Len(handled) - 1)
          IN  /\ handler.history = LastOf(HandledMessages, handler.maxlen)
              /\ call.rv =>
                    call.emit.email.body =
                        Join("\n", BodyHead(call.record) \o <<"">>
                                       \o LastOf(prior, handler.maxlen)
                                       \o <<"", call.msg>>)

\* C19 witness: a fourth record was emitted by a handler with historylen 2;
\* the third, which is in the history of the email, had been rejected
C19_Witness ==
    /\ call.op = "handle" /\ call.rv
    /\ handler.maxlen = 2 /\ Len(handled) = 4
    /\ ~handled[3].rv
    /\ handler.history = <<handled[3].msg, call.msg>>

\* C20: if mailer.send raises while an admitted record is emitted, the
\* exception is caught in emit and does not reach the caller of handle; the
\* count the filter gave the record stays counted, and the message joins the
\* history.
C20_SendRaises ==
    [][(call'.rv /\ call'.emit.sent # "sent") =>
          /\ call'.raises = None
          /\ errors' = errors + 1
          /\ mailer' = mailer
          /\ ff'.counter[call'.record.key]
                = CounterGet(ff.counter, call'.record.key) + 1
          /\ call'.record.count = ff'.counter[call'.record.key]
          /\ handled' = Append(handled, [msg |-> call'.msg, rv |-> TRUE])
          /\ IF handler.maxlen = 0 THEN handler'.history = <<>>
             ELSE /\ handler'.history[Len(handler'.history)] = call'.msg
                  /\ Len(handler'.history) \in
                        {Len(handler.history) + 1, handler.maxlen}]_vars

\* C20 witness: the transport of the SendGrid client raised while a record
\* was emitted, and the record's message is the last of the history
C20_Witness ==
    /\ call.op = "handle" /\ call.rv
    /\ call.emit.sent = "SendGridClientError"
    /\ errors >= 1
    /\ handler.maxlen > 0
    /\ handler.history[Len(handler.history)] = call.msg
    /\ call.record.count = 2

=============================================================================
